---- MODULE Spec2Model ----
(***************************************************************************)
(* Model of github_to_binary.py: the archive codec that writes a directory *)
(* of files as one text stream of "--- <path> ---" records holding 8-digit *)
(* binary groups (encode_repo_to_binary) and rebuilds the files from such  *)
(* a stream (decode_binary_to_files).                                      *)
(*                                                                         *)
(* Text is a sequence of one-character strings; a byte is a number 0..255. *)
(* A file-system location is a sequence of path components counted from    *)
(* the root directory, each component a text.                              *)
(***************************************************************************)
EXTENDS Integers, Sequences, FiniteSets, TLC

VARIABLES
    pc,          \* position of the running operation
    b,           \* codec: the bytes read from a file (f.read())
    binary_data, \* codec: the digit string built from / read for b
    byte_data,   \* codec: the result of decoding binary_data
    all_files,   \* archiver: the files found by os.walk, in walk order
    fi,          \* archiver: index of the next file of all_files
    out,         \* archiver: text written to the output file so far
    gz,          \* archiver: the compressed artifact (output_file + ".gz")
    binary_file, \* extractor: the artifact handed to decode_binary_to_files
    parts,       \* extractor: content.split('--- ')
    pi,          \* extractor: index in parts of the next fragment
    dirs,        \* file system: the directories that exist
    files        \* file system: regular files, location -> bytes

vars == <<pc, b, binary_data, byte_data, all_files, fi, out, gz,
          binary_file, parts, pi, dirs, files>>

-----------------------------------------------------------------------------
(* Bounds of the model.                                                    *)

MaxFullLen == 1
MaxLen == 3
MaxFiles == 2
MaxRecords == 2

-----------------------------------------------------------------------------
(* Text helpers: Python's str operations used by the program.              *)

Min(x, y) == IF x < y THEN x ELSE y

RECURSIVE Concat(_)
Concat(ss) == IF ss = <<>> THEN <<>> ELSE Head(ss) \o Concat(Tail(ss))

\* s[i:j] of Python, 0-based, end clipped to the length.
Slice(s, i, j) == SubSeq(s, i + 1, Min(j, Len(s)))

StartsWith(s, p) == Len(s) >= Len(p) /\ SubSeq(s, 1, Len(p)) = p

EndsWith(s, p) ==
    Len(s) >= Len(p) /\ SubSeq(s, Len(s) - Len(p) + 1, Len(s)) = p

\* 0 when sep does not occur in s, else the 1-based place of its first
\* occurrence.
Least(hits) ==
    IF hits = {} THEN 0 ELSE CHOOSE i \in hits : \A j \in hits : i <= j

Find(s, sep) ==
    Least({i \in 1..(Len(s) - Len(sep) + 1) :
              SubSeq(s, i, i + Len(sep) - 1) = sep})

\* s.split(sep): every non-overlapping occurrence, left to right.
RECURSIVE SplitAt(_, _, _)
SplitAt(s, sep, i) ==
    IF i = 0 THEN <<s>>
    ELSE <<SubSeq(s, 1, i - 1)>>
         \o SplitAt(SubSeq(s, i + Len(sep), Len(s)), sep,
                    Find(SubSeq(s, i + Len(sep), Len(s)), sep))

Split(s, sep) == SplitAt(s, sep, Find(s, sep))

\* s.split(sep, 1): at the first occurrence only.
SplitOnceAt(s, sep, i) ==
    IF i = 0 THEN <<s>>
    ELSE <<SubSeq(s, 1, i - 1), SubSeq(s, i + Len(sep), Len(s))>>

SplitOnce(s, sep) == SplitOnceAt(s, sep, Find(s, sep))

\* s.replace(old, ''): every non-overlapping occurrence removed.
Remove(s, old) == Concat(Split(s, old))

IsSpace(c) == c \in {" ", "\n", "\t", "\r"}

RECURSIVE LStrip(_)
LStrip(s) == IF s # <<>> /\ IsSpace(Head(s)) THEN LStrip(Tail(s)) ELSE s

RECURSIVE RStrip(_)
RStrip(s) ==
    IF s # <<>> /\ IsSpace(s[Len(s)])
    THEN RStrip(SubSeq(s, 1, Len(s) - 1)) ELSE s

\* s.strip()
Strip(s) == RStrip(LStrip(s))

-----------------------------------------------------------------------------
(* The byte / digit-string codec.                                          *)

\* format(n, 'b'): the binary digits of n, most significant first.
RECURSIVE Bin(_)
Bin(n) ==
    IF n < 2 THEN <<IF n = 1 THEN "1" ELSE "0">>
    ELSE Bin(n \div 2) \o <<IF n % 2 = 1 THEN "1" ELSE "0">>

RECURSIVE Zeros(_)
Zeros(n) == IF n <= 0 THEN <<>> ELSE <<"0">> \o Zeros(n - 1)

\* format(byte, '08b'): zero-padded on the left to 8 digits.
\* format(byte, 'b'): the padding to 8 digits forgotten.
Format08bUnpadded(byte) == Bin(byte)

PadLeft8(d) == Zeros(8 - Len(d)) \o d

Format08b(byte) == PadLeft8(Bin(byte))

\* ''.join(format(byte, '08b') for byte in data)
encodeBytes(data) == Concat([i \in 1..Len(data) |-> Format08b(data[i])])

RECURSIVE DigitsValue(_)
DigitsValue(s) ==
    IF s = <<>> THEN 0
    ELSE IF s[Len(s)] = "_" THEN DigitsValue(SubSeq(s, 1, Len(s) - 1))
    ELSE 2 * DigitsValue(SubSeq(s, 1, Len(s) - 1))
         + (IF s[Len(s)] = "1" THEN 1 ELSE 0)

\* The digits of an integer literal: non-empty, 0 and 1 with single
\* underscores between digits only.
ValidDigits(v) ==
    /\ v # <<>>
    /\ v[1] # "_"
    /\ v[Len(v)] # "_"
    /\ \A i \in 1..Len(v) : v[i] \in {"0", "1", "_"}
    /\ \A i \in 1..(Len(v) - 1) : ~(v[i] = "_" /\ v[i + 1] = "_")

IntDigits(v, negative) ==
    IF ValidDigits(v)
    THEN [ok |-> TRUE,
          val |-> IF negative THEN 0 - DigitsValue(v) ELSE DigitsValue(v)]
    ELSE [ok |-> FALSE, val |-> 0]

\* After the sign: a 0b / 0B prefix, and one underscore after it, are
\* skipped.
IntPrefixed(u, negative) ==
    IF Len(u) >= 2 /\ u[1] = "0" /\ u[2] \in {"b", "B"}
    THEN IF Len(u) >= 3 /\ u[3] = "_"
         THEN IntDigits(SubSeq(u, 4, Len(u)), negative)
         ELSE IntDigits(SubSeq(u, 3, Len(u)), negative)
    ELSE IntDigits(u, negative)

IntSigned(t) ==
    IF t # <<>> /\ t[1] \in {"+", "-"}
    THEN IntPrefixed(Tail(t), t[1] = "-")
    ELSE IntPrefixed(t, FALSE)

\* int(s, 2) of Python: surrounding whitespace, a sign, a 0b / 0B prefix and
\* single underscores between digits are accepted; ok = FALSE is ValueError.
IntBase2(s) == IntSigned(Strip(s))

\* The groups binary_data[i:i+8] for i in range(0, len(binary_data), 8).
Groups(s) == [g \in 1..((Len(s) + 7) \div 8) |-> Slice(s, 8 * (g - 1), 8 * g)]

\* bytes(int(binary_data[i:i+8], 2) for i in range(0, len(binary_data), 8)):
\* ok = FALSE is the ValueError of int() or of bytes() (a value outside
\* 0..255).
BytesOf(n) ==
    IF \A i \in 1..Len(n) : n[i].ok /\ n[i].val \in 0..255
    THEN [ok |-> TRUE, bytes |-> [i \in 1..Len(n) |-> n[i].val]]
    ELSE [ok |-> FALSE, bytes |-> <<>>]

IntsOf(g) == [i \in 1..Len(g) |-> IntBase2(g[i])]

decodeDigitString(s) == BytesOf(IntsOf(Groups(s)))

-----------------------------------------------------------------------------
(* The stored artifact: the text written as UTF-8 and, for a .gz name,     *)
(* gzip around the whole of it.                                            *)

\* The code point of a character of the model's alphabet (all ASCII, so the
\* UTF-8 encoding of a text is one byte per character).
Ord(c) ==
    CASE c = "\n" -> 10 [] c = " " -> 32  [] c = "+" -> 43 [] c = "-" -> 45
      [] c = "." -> 46  [] c = "/" -> 47  [] c = "0" -> 48 [] c = "1" -> 49
      [] c = "2" -> 50  [] c = "_" -> 95  [] c = "a" -> 97 [] c = "b" -> 98
      [] c = "d" -> 100 [] c = "x" -> 120

Alphabet == {"\n", " ", "+", "-", ".", "/", "0", "1", "2", "_", "a", "b",
             "d", "x"}

Chr(n) == CHOOSE c \in Alphabet : Ord(c) = n

\* text.encode('utf-8') and bytes.decode('utf-8')
Utf8Encode(text) == [i \in 1..Len(text) |-> Ord(text[i])]
Utf8Decode(raw) == [i \in 1..Len(raw) |-> Chr(raw[i])]

\* gzip is lossless and opaque: the blob is not the text, and only
\* decompression gives the bytes back.
GzipCompress(raw) == [gzip |-> raw]
GzipDecompress(blob) == blob.gzip

-----------------------------------------------------------------------------
(* Paths and the file system.                                              *)

Marker == <<"-", "-", "-", " ">>
Suffix == <<" ", "-", "-", "-">>
Newline == <<"\n">>
Slash == <<"/">>

decoded_folder == <<"d", "e", "c", "o", "d", "e", "d", "_", "r", "e", "p", "o">>

\* The working directory of the process, against which relative paths
\* resolve.
Cwd == << <<"c", "w", "d">> >>

DestRoot == Append(Cwd, decoded_folder)

\* os.path.join(a, p)
PathJoin(a, p) ==
    IF StartsWith(p, Slash) THEN p
    ELSE IF a = <<>> \/ EndsWith(a, Slash) THEN a \o p
    ELSE a \o Slash \o p

RECURSIVE RStripSlash(_)
RStripSlash(s) ==
    IF s # <<>> /\ s[Len(s)] = "/"
    THEN RStripSlash(SubSeq(s, 1, Len(s) - 1)) ELSE s

LastSlash(p) ==
    LET at == {i \in 1..Len(p) : p[i] = "/"}
    IN IF at = {} THEN 0 ELSE CHOOSE i \in at : \A j \in at : j <= i

\* os.path.dirname(p)
DirnameOfHead(head, stripped) == IF stripped = <<>> THEN head ELSE stripped

Dirname(p) ==
    DirnameOfHead(SubSeq(p, 1, LastSlash(p)),
                  RStripSlash(SubSeq(p, 1, LastSlash(p))))

\* os.path.basename(p)
Basename(p) == SubSeq(p, LastSlash(p) + 1, Len(p))

Parent(loc) == IF loc = <<>> THEN <<>> ELSE SubSeq(loc, 1, Len(loc) - 1)

StartLoc(p) == IF StartsWith(p, Slash) THEN <<>> ELSE Cwd

\* os.makedirs(p, exist_ok=True), component by component from loc: a
\* missing directory is created, an existing one entered, ".." steps up;
\* a component that is a regular file raises (ok = FALSE) and keeps the
\* directories made before it.
RECURSIVE MkdirWalk(_, _, _, _)
MkdirWalk(d, f, loc, segs) ==
    IF segs = <<>> THEN [ok |-> TRUE, dirs |-> d, loc |-> loc]
    ELSE IF Head(segs) = <<>> \/ Head(segs) = <<".">>
    THEN MkdirWalk(d, f, loc, Tail(segs))
    ELSE IF Head(segs) = <<".", ".">>
    THEN MkdirWalk(d, f, Parent(loc), Tail(segs))
    ELSE IF Append(loc, Head(segs)) \in DOMAIN f
    THEN [ok |-> FALSE, dirs |-> d, loc |-> loc]
    ELSE MkdirWalk(d \cup {Append(loc, Head(segs))}, f,
                   Append(loc, Head(segs)), Tail(segs))

\* os.makedirs(p) without exist_ok=True: an existing directory raises.
MakedirsNoExistOk(d, f, p) ==
    IF MkdirWalk(d, f, StartLoc(p), Split(p, Slash)).loc \in d
    THEN [ok |-> FALSE, dirs |-> d, loc |-> StartLoc(p)]
    ELSE MkdirWalk(d, f, StartLoc(p), Split(p, Slash))

Makedirs(d, f, p) == MkdirWalk(d, f, StartLoc(p), Split(p, Slash))

\* open(p, 'wb') followed by write(data), the directory of p being at loc:
\* a name that is empty, "." or "..", or that is a directory, raises
\* (ok = FALSE); otherwise the file is created or truncated.
OpenWrite(d, f, loc, name, data) ==
    IF name = <<>> \/ name = <<".">> \/ name = <<".", ".">>
       \/ Append(loc, name) \in d
    THEN [ok |-> FALSE, files |-> f]
    ELSE [ok |-> TRUE,
          files |-> [l \in DOMAIN f \cup {Append(loc, name)} |->
                        IF l = Append(loc, name) THEN data ELSE f[l]]]

-----------------------------------------------------------------------------
(* decode_binary_to_files                                                  *)

\* The header and body of a fragment: part.split('\n', 1).
HeaderOf(part) == SplitOnce(part, Newline)[1]
HasBody(part) == Len(SplitOnce(part, Newline)) = 2
BodyOf(part) == SplitOnce(part, Newline)[2]

\* filepath = header.replace(' ---', '').strip()
FilepathOf(header) == Strip(Remove(header, Suffix))

\* The try block of one iteration, the directory of file_path made (mk)
\* and the digits decoded (dec): an exception of int(), bytes() or open()
\* is caught and nothing is written.
WriteDecoded(mk, f, name, dec) ==
    IF ~dec.ok
    THEN [status |-> "error", dirs |-> mk.dirs, files |-> f]
    ELSE IF ~OpenWrite(mk.dirs, f, mk.loc, name, dec.bytes).ok
    THEN [status |-> "error", dirs |-> mk.dirs, files |-> f]
    ELSE [status |-> "written", dirs |-> mk.dirs,
          files |-> OpenWrite(mk.dirs, f, mk.loc, name, dec.bytes).files]

\* os.makedirs(os.path.dirname(file_path), exist_ok=True) stands outside
\* the try block: its exception leaves the loop and the function.
MaterializeAt(mk, f, name, digits) ==
    IF ~mk.ok
    THEN [status |-> "raised", dirs |-> mk.dirs, files |-> f]
    ELSE WriteDecoded(mk, f, name, decodeDigitString(digits))

Materialize(file_path, digits, d, f) ==
    MaterializeAt(Makedirs(d, f, Dirname(file_path)), f,
                  Basename(file_path), digits)

\* A record whose trimmed body is empty skipped like one with no body.
DecodePartSkipEmpty(part, d, f) ==
    IF ~HasBody(part) \/ Strip(BodyOf(part)) = <<>>
    THEN [status |-> "continue", dirs |-> d, files |-> f]
    ELSE Materialize(PathJoin(decoded_folder, FilepathOf(HeaderOf(part))),
                     Strip(BodyOf(part)), d, f)

\* One iteration of the loop over parts[1:], on a file system (d, f).
\* status: "continue" (no body), "raised" (makedirs failed), "error"
\* (caught: decoding or opening failed), "written".
DecodePart(part, d, f) ==
    IF ~HasBody(part)
    THEN [status |-> "continue", dirs |-> d, files |-> f]
    ELSE Materialize(PathJoin(decoded_folder, FilepathOf(HeaderOf(part))),
                     Strip(BodyOf(part)), d, f)

\* The text of the artifact: gunzipped for a name ending in .gz.
ReadContent(file) ==
    IF file.gz THEN Utf8Decode(GzipDecompress(file.data))
    ELSE Utf8Decode(file.data)

DecodeStart ==
    /\ pc = "d_start"
    /\ dirs' = Makedirs(dirs, files, decoded_folder).dirs
    /\ IF Makedirs(dirs, files, decoded_folder).ok
       THEN /\ parts' = Split(ReadContent(binary_file), Marker)
            /\ pi' = 2
            /\ pc' = "d_loop"
       ELSE /\ pc' = "raised"
            /\ UNCHANGED <<parts, pi>>
    /\ UNCHANGED <<b, binary_data, byte_data, all_files, fi, out, gz,
                   binary_file, files>>

DecodeStep ==
    /\ pc = "d_loop"
    /\ pi <= Len(parts)
    /\ \E r \in {DecodePart(parts[pi], dirs, files)} :
          /\ dirs' = r.dirs
          /\ files' = r.files
          /\ pc' = IF r.status = "raised" THEN "raised" ELSE "d_loop"
    /\ pi' = pi + 1
    /\ UNCHANGED <<b, binary_data, byte_data, all_files, fi, out, gz,
                   binary_file, parts>>

DecodeDone ==
    /\ pc = "d_loop"
    /\ pi > Len(parts)
    /\ pc' = "d_done"
    /\ UNCHANGED <<b, binary_data, byte_data, all_files, fi, out, gz,
                   binary_file, parts, pi, dirs, files>>

-----------------------------------------------------------------------------
(* Inputs: artifacts handed to the extractor that the archiver need not    *)
(* have written.                                                           *)

EmptyFiles == [l \in {} |-> <<>>]

\* A record as the archiver frames it, with any header and any digits.
Record(header, digits) ==
    Marker \o header \o Newline \o digits \o <<"\n", "\n">>

PlainPaths == {<<"a">>, <<"d">>, <<"d", "/", "a">>, <<"d", "/", "b">>}

\* Headers that are not "<plain path> ---": no suffix, a path that leaves
\* the destination, an absolute path, a blank before the path, " ---"
\* inside the path, a "./" path, an empty path.
OddHeaders ==
    {<<"a">>,
     <<".", ".", "/", "x", " ", "-", "-", "-">>,
     <<"/", "x", " ", "-", "-", "-">>,
     <<" ", "b", " ", "-", "-", "-">>,
     <<"a", " ", "-", "-", "-", "b", " ", "-", "-", "-">>,
     <<".", "/", "a", " ", "-", "-", "-">>,
     <<"d", "/", ".", ".", "/", "x", " ", "-", "-", "-">>,
     <<" ", "-", "-", "-">>}

GoodDigits == {<<>>, encodeBytes(<<72>>), encodeBytes(<<72, 105>>)}

\* Digit strings that are not a whole number of groups of 0 and 1.
BadDigits ==
    {<<"0", "1", "0", "0", "1", "0", "0">>,
     <<"0", "1", "0", "0", "1", "0", "0", "0", "1">>,
     <<"0", "0", "0", "0", "0", "0", "0", "2">>,
     <<"+", "0", "0", "0", "0", "0", "0", "1">>,
     <<"0", "0", "0", "0", "_", "0", "0", "1">>,
     <<"-", "0", "0", "0", "0", "0", "0", "1">>,
     <<"0", "0", "0", "0", "0", "0", "0", "1", " ", "0", "0", "0", "0", "0", "0", "1">>,
     <<"0", "b", "0", "0", "0", "0", "0", "1">>}

Fragments ==
    {Record(p \o Suffix, g) : p \in PlainPaths, g \in GoodDigits}
    \cup {Marker \o p \o Suffix : p \in {<<"a">>}}
    \cup {Record(h, encodeBytes(<<72>>)) : h \in OddHeaders}
    \cup {Record(<<"a">> \o Suffix, x) : x \in BadDigits}

\* The fragments of the longest streams: well-formed records and a header
\* with nothing after it.
CoreFragments ==
    {Record(<<"d">> \o Suffix, encodeBytes(<<72>>)),
     Record(<<"d", "/", "a">> \o Suffix, encodeBytes(<<72, 105>>)),
     Record(<<"d", "/", "b">> \o Suffix, <<>>),
     Record(<<"a">> \o Suffix, encodeBytes(<<255>>)),
     Record(<<"a">> \o Suffix, <<>>),
     Record(<<".", "/", "a">> \o Suffix, encodeBytes(<<72>>)),
     Marker \o <<"a">> \o Suffix}

Streams ==
    {Concat(s) : s \in UNION {[1..n -> Fragments] : n \in 0..MaxRecords}}
    \cup {Concat(s) : s \in [1..(MaxRecords + 1) -> CoreFragments]}

InitCommon ==
    /\ b = <<>>
    /\ binary_data = <<>>
    /\ byte_data = [ok |-> TRUE, bytes |-> <<>>]
    /\ parts = <<>>
    /\ pi = 2
    /\ dirs = {<<>>, Cwd}
    /\ files = EmptyFiles

InitExtract ==
    /\ InitCommon
    /\ pc = "d_start"
    /\ all_files = <<>>
    /\ fi = 1
    /\ out = <<>>
    /\ gz = GzipCompress(<<>>)
    /\ binary_file \in {[gz |-> FALSE, data |-> Utf8Encode(s)] : s \in Streams}

NextExtract == DecodeStart \/ DecodeStep \/ DecodeDone

SpecExtract == InitExtract /\ [][NextExtract]_vars

-----------------------------------------------------------------------------
(* encode_repo_to_binary                                                   *)

output_dir == <<"o", "u", "t", "p", "u", "t">>

\* out.write(f"--- {rel_path} ---\n{binary_data}\n\n")
RecordText(rel_path, data) ==
    Marker \o rel_path \o Suffix \o Newline \o encodeBytes(data)
    \o <<"\n", "\n">>

\* The header written before the file is read: a file that cannot be read
\* leaves its header in the stream.
EncodeOneHeaderFirst(file, text) ==
    IF file.readable THEN text \o RecordText(file.path, file.data)
    ELSE text \o Marker \o file.path \o Suffix \o Newline

\* One iteration of the loop over all_files: a file that cannot be read
\* raises before anything is written and is skipped.
EncodeOne(file, text) ==
    IF file.readable THEN text \o RecordText(file.path, file.data) ELSE text

EncodeStart ==
    /\ pc = "e_start"
    /\ dirs' = Makedirs(dirs, files, output_dir).dirs
    /\ out' = <<>>
    /\ fi' = 1
    /\ pc' = "e_loop"
    /\ UNCHANGED <<b, binary_data, byte_data, all_files, gz, binary_file,
                   parts, pi, files>>

EncodeFile ==
    /\ pc = "e_loop"
    /\ fi <= Len(all_files)
    /\ out' = EncodeOne(all_files[fi], out)
    /\ fi' = fi + 1
    /\ UNCHANGED <<pc, b, binary_data, byte_data, all_files, gz, binary_file,
                   parts, pi, dirs, files>>

\* The output file is compressed as a whole and the extracted tree removed.
EncodeFinish ==
    /\ pc = "e_loop"
    /\ fi > Len(all_files)
    /\ gz' = GzipCompress(Utf8Encode(out))
    /\ pc' = "e_done"
    /\ UNCHANGED <<b, binary_data, byte_data, all_files, fi, out,
                   binary_file, parts, pi, dirs, files>>

\* main, choice 2 after an encoding: the path entered names the .gz or the
\* .txt the encoding left in the output directory.
ChooseDecode ==
    /\ pc = "e_done"
    /\ \E zipped \in BOOLEAN :
          binary_file' = IF zipped THEN [gz |-> TRUE, data |-> gz]
                         ELSE [gz |-> FALSE, data |-> Utf8Encode(out)]
    /\ pc' = "d_start"
    /\ UNCHANGED <<b, binary_data, byte_data, all_files, fi, out, gz, parts,
                   pi, dirs, files>>

\* Relative paths of files as os.walk and os.path.relpath give them: plain
\* names, a name in a directory, and names with a blank in front, with
\* " ---" inside and with dashes at the end.
WalkPaths ==
    {<<"a">>,
     <<"d", "/", "a">>,
     <<" ", "a">>,
     <<"a", " ", "-", "-", "-", "b">>,
     <<"x", "-", "-", "-">>}

Contents == {<<>>, <<72, 105>>, <<255>>}

WalkFiles ==
    [path : WalkPaths, data : Contents, readable : BOOLEAN]

DistinctPaths(t) ==
    \A i \in 1..Len(t) : \A j \in 1..Len(t) : i # j => t[i].path # t[j].path

Trees ==
    {t \in UNION {[1..n -> WalkFiles] : n \in 0..MaxFiles} : DistinctPaths(t)}

InitArchive ==
    /\ InitCommon
    /\ pc = "e_start"
    /\ all_files \in Trees
    /\ fi = 1
    /\ out = <<>>
    /\ gz = GzipCompress(<<>>)
    /\ binary_file = [gz |-> FALSE, data |-> <<>>]

NextArchive ==
    \/ EncodeStart \/ EncodeFile \/ EncodeFinish \/ ChooseDecode
    \/ DecodeStart \/ DecodeStep \/ DecodeDone

SpecArchive == InitArchive /\ [][NextArchive]_vars

-----------------------------------------------------------------------------
(* The codec alone: the bytes of one file encoded, and the digits decoded. *)

SampleBytes == {0, 1, 72, 105, 128, 255}

ByteSeqs ==
    UNION {[1..n -> 0..255] : n \in 0..MaxFullLen}
    \cup UNION {[1..n -> SampleBytes] : n \in 0..MaxLen}

CodecEncode ==
    /\ pc = "c_start"
    /\ binary_data' = encodeBytes(b)
    /\ pc' = "c_encoded"
    /\ UNCHANGED <<b, byte_data, all_files, fi, out, gz, binary_file, parts,
                   pi, dirs, files>>

CodecDecode ==
    /\ pc = "c_encoded"
    /\ byte_data' = decodeDigitString(binary_data)
    /\ pc' = "c_decoded"
    /\ UNCHANGED <<b, binary_data, all_files, fi, out, gz, binary_file,
                   parts, pi, dirs, files>>

InitCodec ==
    /\ pc = "c_start"
    /\ b \in ByteSeqs
    /\ binary_data = <<>>
    /\ byte_data = [ok |-> TRUE, bytes |-> <<>>]
    /\ all_files = <<>>
    /\ fi = 1
    /\ out = <<>>
    /\ gz = GzipCompress(<<>>)
    /\ binary_file = [gz |-> FALSE, data |-> <<>>]
    /\ parts = <<>>
    /\ pi = 2
    /\ dirs = {<<>>, Cwd}
    /\ files = EmptyFiles

NextCodec == CodecEncode \/ CodecDecode

SpecCodec == InitCodec /\ [][NextCodec]_vars

-----------------------------------------------------------------------------
(* Vocabulary of the properties.                                           *)

IsPrefix(p, l) == Len(l) >= Len(p) /\ SubSeq(l, 1, Len(p)) = p

IsDigits(t) == \A i \in 1..Len(t) : t[i] \in {"0", "1"}

\* The extractor is about to handle fragment parts[pi].
Handling == pc = "d_loop" /\ pi <= Len(parts)

\* The extractor has ended, normally or by an exception.
Ended == pc \in {"d_done", "raised"}

\* The header with its one trailing " ---" taken off.
HeaderPath(header) == SubSeq(header, 1, Len(header) - Len(Suffix))

\* A path of plain names: it has no blank at either end, no " ---" and no
\* newline in it, is not absolute, and none of its components is empty,
\* "." or "..".
IsPlain(path) ==
    /\ path # <<>>
    /\ Strip(path) = path
    /\ Find(path, Suffix) = 0
    /\ Find(path, <<"-", "-", "-">>) = 0
    /\ Find(path, Newline) = 0
    /\ \A i \in 1..Len(Split(path, Slash)) :
          Split(path, Slash)[i] \notin {<<>>, <<".">>, <<".", ".">>}

\* Where a plain relative path lies under the destination root.
PlainLoc(path) == DestRoot \o Split(path, Slash)

\* The files under the destination root.
DestFiles == {l \in DOMAIN files : IsPrefix(DestRoot, l)}

\* A well-formed record: a header ending in " ---" and a body that is a
\* whole number of groups of 0 and 1 followed by the blank line.
WellFormed(part) ==
    /\ HasBody(part)
    /\ EndsWith(HeaderOf(part), Suffix)
    /\ EndsWith(BodyOf(part), <<"\n", "\n">>)
    /\ IsDigits(SubSeq(BodyOf(part), 1, Len(BodyOf(part)) - 2))
    /\ (Len(BodyOf(part)) - 2) % 8 = 0

\* The whole extraction of a text into the empty destination root.
RECURSIVE ExtractFrom(_, _, _, _)
ExtractFrom(ps, i, d, f) ==
    IF i > Len(ps) THEN [status |-> "d_done", dirs |-> d, files |-> f]
    ELSE IF DecodePart(ps[i], d, f).status = "raised"
    THEN [status |-> "raised", dirs |-> DecodePart(ps[i], d, f).dirs,
          files |-> f]
    ELSE ExtractFrom(ps, i + 1, DecodePart(ps[i], d, f).dirs,
                     DecodePart(ps[i], d, f).files)

ExtractText(text) ==
    ExtractFrom(Split(text, Marker), 2, {<<>>, Cwd, DestRoot}, EmptyFiles)

\* The stream of the records parts[2..] in the order perm.
Permuted(perm) ==
    Concat([i \in 1..(Len(parts) - 1) |-> Marker \o parts[perm[i] + 1]])

\* The stream holds well-formed records only.
AllWellFormed ==
    /\ Len(parts) >= 1
    /\ parts[1] = <<>>
    /\ \A i \in 2..Len(parts) : WellFormed(parts[i])

-----------------------------------------------------------------------------
(* C1  Archive round trip.                                                 *)

\* C1: after extracting the stream the archiver wrote, the destination root
\* holds exactly one file per entry that was read, at the entry's relative
\* path and with the entry's bytes, and nothing else, whatever the paths
\* are.
C1_RoundTripAnyPaths ==
    Ended =>
        /\ pc = "d_done"
        /\ \A i \in 1..Len(all_files) :
              all_files[i].readable =>
                  /\ DestRoot \o Split(all_files[i].path, Slash) \in DestFiles
                  /\ files[DestRoot \o Split(all_files[i].path, Slash)]
                         = all_files[i].data
        /\ Cardinality(DestFiles)
               = Cardinality({i \in 1..Len(all_files) : all_files[i].readable})

\* The round trip for entries with plain paths: it holds of the code.
RoundTripPlainPaths ==
    (Ended /\ \A i \in 1..Len(all_files) : IsPlain(all_files[i].path)) =>
        /\ pc = "d_done"
        /\ DOMAIN files =
               {PlainLoc(all_files[i].path) :
                    i \in {j \in 1..Len(all_files) : all_files[j].readable}}
        /\ \A i \in 1..Len(all_files) :
              all_files[i].readable =>
                  files[PlainLoc(all_files[i].path)] = all_files[i].data

-----------------------------------------------------------------------------
(* C2  Codec round trip.                                                   *)

Pow2(n) == IF n = 0 THEN 1 ELSE IF n = 1 THEN 2 ELSE IF n = 2 THEN 4
           ELSE IF n = 3 THEN 8 ELSE IF n = 4 THEN 16 ELSE IF n = 5 THEN 32
           ELSE IF n = 6 THEN 64 ELSE 128

\* C2: the digit string of b has 8 digits per byte, digit j of group i being
\* bit 8-j of byte i (most significant first, leading zeros kept), the empty
\* byte sequence gives the empty string, and decoding the digit string
\* gives b back without an error.
C2_CodecRoundTrip ==
    /\ pc \in {"c_encoded", "c_decoded"} =>
          /\ Len(binary_data) = 8 * Len(b)
          /\ \A i \in 1..Len(b) : \A j \in 1..8 :
                binary_data[8 * (i - 1) + j]
                    = IF (b[i] \div Pow2(8 - j)) % 2 = 1 THEN "1" ELSE "0"
          /\ (b = <<>> => binary_data = <<>>)
    /\ pc = "c_decoded" => byte_data.ok /\ byte_data.bytes = b

C2_Witness ==
    /\ pc = "c_decoded"
    /\ b = <<72, 105>>
    /\ binary_data = <<"0", "1", "0", "0", "1", "0", "0", "0",
                       "0", "1", "1", "0", "1", "0", "0", "1">>
    /\ byte_data.bytes = <<72, 105>>

-----------------------------------------------------------------------------
(* C3  Shape of the serialized stream.                                     *)

\* The length of the record of a file: "--- ", the path, " ---", a newline,
\* 8 digits per byte and two newlines; nothing for a file that is not read.
RecordLen(file) ==
    IF file.readable THEN Len(file.path) + 8 * Len(file.data) + 11 ELSE 0

RECURSIVE Offset(_)
Offset(k) == IF k <= 1 THEN 0 ELSE Offset(k - 1) + RecordLen(all_files[k - 1])

\* C3: the stream written so far is the records of the files handled so
\* far, in walk order, one after the other: each is "--- ", the path,
\* " ---", a newline, 8 digits of 0 and 1 per byte of the file, and two
\* newlines; a file whose read fails adds no character and the files after
\* it still get their records.
C3_StreamShape ==
    pc # "e_start" =>
        /\ Len(out) = Offset(fi)
        /\ \A i \in 1..(fi - 1) :
              all_files[i].readable =>
                  /\ SubSeq(out, Offset(i) + 1, Offset(i) + 4) = Marker
                  /\ SubSeq(out, Offset(i) + 5,
                            Offset(i) + 4 + Len(all_files[i].path))
                         = all_files[i].path
                  /\ SubSeq(out, Offset(i) + 5 + Len(all_files[i].path),
                            Offset(i) + 9 + Len(all_files[i].path))
                         = <<" ", "-", "-", "-", "\n">>
                  /\ IsDigits(SubSeq(out,
                                     Offset(i) + 10 + Len(all_files[i].path),
                                     Offset(i + 1) - 2))
                  /\ SubSeq(out, Offset(i + 1) - 1, Offset(i + 1))
                         = <<"\n", "\n">>

C3_Witness ==
    /\ pc = "e_done"
    /\ Len(all_files) = 2
    /\ ~all_files[1].readable
    /\ all_files[2].readable
    /\ all_files[2].path = <<"d", "/", "a">>
    /\ all_files[2].data = <<72, 105>>
    /\ out = Marker \o <<"d", "/", "a", " ", "-", "-", "-", "\n">>
             \o <<"0", "1", "0", "0", "1", "0", "0", "0",
                  "0", "1", "1", "0", "1", "0", "0", "1", "\n", "\n">>

-----------------------------------------------------------------------------
(* C4  Path containment.                                                   *)

\* C4: the extractor makes no directory and writes no file outside the
\* destination root, whatever the stream holds.
C4_PathContainment ==
    /\ \A l \in dirs \ {<<>>, Cwd} : IsPrefix(DestRoot, l)
    /\ \A l \in DOMAIN files : IsPrefix(DestRoot, l)

-----------------------------------------------------------------------------
(* C5  Fault isolation per record.                                         *)

\* C5: no error of one record ends the loop: the extractor never ends by
\* an exception with fragments left to handle.
C5_FaultIsolation == pc = "raised" => pi > Len(parts)

-----------------------------------------------------------------------------
(* C6  Length check on decode.                                             *)

\* C6: handling a record whose trimmed digit string has a length that is
\* not a multiple of 8 writes no file.
C6_LengthChecked ==
    [][(Handling /\ HasBody(parts[pi])
        /\ Len(Strip(BodyOf(parts[pi]))) % 8 # 0) => files' = files]_vars

-----------------------------------------------------------------------------
(* C7  Alphabet check on decode.                                           *)

\* C7: handling a record whose trimmed digit string holds a character
\* other than 0 and 1 writes no file.
C7_AlphabetChecked ==
    [][(Handling /\ HasBody(parts[pi])
        /\ ~IsDigits(Strip(BodyOf(parts[pi])))) => files' = files]_vars

-----------------------------------------------------------------------------
(* C8  Header validation.                                                  *)

\* C8: the path of a fragment is its header line less the one trailing
\* " ---" and nothing else; a fragment whose header line does not end in
\* " ---" makes no directory and no file.
C8_HeaderValidated ==
    [][Handling =>
          IF EndsWith(HeaderOf(parts[pi]), Suffix)
          THEN HasBody(parts[pi]) =>
                   FilepathOf(HeaderOf(parts[pi]))
                       = HeaderPath(HeaderOf(parts[pi]))
          ELSE dirs' = dirs /\ files' = files]_vars

-----------------------------------------------------------------------------
(* C9  Order independence of extraction.                                   *)

\* The path the extractor opens for a fragment.
FilePathOf(part) == PathJoin(decoded_folder, FilepathOf(HeaderOf(part)))

\* The directories named on the way to the file of a fragment, and the
\* location of the file.
NeededDirs(part) == Makedirs({}, EmptyFiles, Dirname(FilePathOf(part))).dirs

TargetLoc(part) ==
    Append(Makedirs({}, EmptyFiles, Dirname(FilePathOf(part))).loc,
           Basename(FilePathOf(part)))

\* The records name pairwise distinct files, each under a name of its own
\* (not empty, "." or ".."), and no record's file is a directory that
\* exists or that a record of the stream names on the way to its file.
Compatible ==
    /\ \A i \in 2..Len(parts) :
          /\ Basename(FilePathOf(parts[i])) \notin {<<>>, <<".">>, <<".", ".">>}
          /\ TargetLoc(parts[i]) \notin {<<>>, Cwd, DestRoot}
    /\ \A i \in 2..Len(parts) : \A j \in 2..Len(parts) :
          /\ TargetLoc(parts[i]) \notin NeededDirs(parts[j])
          /\ i # j => TargetLoc(parts[i]) # TargetLoc(parts[j])

DistinctHeaderPaths ==
    \A i \in 2..Len(parts) : \A j \in 2..Len(parts) :
        i # j => HeaderPath(HeaderOf(parts[i])) # HeaderPath(HeaderOf(parts[j]))

SameTreeInAnyOrder ==
    \A perm \in Permutations(1..(Len(parts) - 1)) :
        ExtractText(Permuted(perm))
            = [status |-> "d_done", dirs |-> dirs, files |-> files]

\* C9 as claimed: well-formed records with pairwise distinct header paths
\* are all materialized, and give the same tree in every order.
C9_OrderIndependentDistinctPaths ==
    (Ended /\ AllWellFormed /\ DistinctHeaderPaths) =>
        pc = "d_done" /\ SameTreeInAnyOrder

\* C9 as amended: well-formed records that name pairwise distinct files,
\* none of which is a directory on the way to the file of a record of the
\* stream, are all materialized without error, each with its decoded
\* bytes, and give the same tree in every order.
C9_OrderIndependentCompatible ==
    (Ended /\ AllWellFormed /\ Compatible) =>
        /\ pc = "d_done"
        /\ \A i \in 2..Len(parts) :
              /\ TargetLoc(parts[i]) \in DOMAIN files
              /\ encodeBytes(files[TargetLoc(parts[i])])
                     = Strip(BodyOf(parts[i]))
        /\ SameTreeInAnyOrder

C9_Witness ==
    /\ pc = "d_done"
    /\ AllWellFormed
    /\ Compatible
    /\ Len(parts) = 3
    /\ HeaderOf(parts[2]) = <<"d", "/", "b">> \o Suffix
    /\ HeaderOf(parts[3]) = <<"d", "/", "a">> \o Suffix
    /\ DOMAIN files = {PlainLoc(<<"d", "/", "a">>), PlainLoc(<<"d", "/", "b">>)}
    /\ files[PlainLoc(<<"d", "/", "a">>)] = <<72, 105>>

-----------------------------------------------------------------------------
(* C10  Records with an empty body.                                        *)

\* C10 as claimed: handling a record whose body is empty after trimming
\* makes no file, overwrites none and leaves the tree as it was.
C10_EmptyBodySkipped ==
    [][(Handling /\ (~HasBody(parts[pi]) \/ Strip(BodyOf(parts[pi])) = <<>>))
          => dirs' = dirs /\ files' = files]_vars

\* No component of the path to l is a regular file, and l is no directory.
Writable(l) ==
    /\ l \notin dirs
    /\ \A n \in 1..(Len(l) - 1) : SubSeq(l, 1, n) \notin DOMAIN files

\* C10 as amended: a fragment with no body line at all (no newline after
\* the header) is skipped and leaves the tree as it was; a record whose
\* body is present and empty after trimming is not skipped: where its
\* (plain) path can be written, a zero-length file stands at that path
\* afterwards, made or truncated, and the other files are as before.
C10_NoBodySkippedEmptyBodyWritten ==
    [][Handling =>
          /\ ~HasBody(parts[pi]) =>
                dirs' = dirs /\ files' = files /\ pc' = "d_loop"
          /\ (/\ HasBody(parts[pi])
              /\ Strip(BodyOf(parts[pi])) = <<>>
              /\ EndsWith(HeaderOf(parts[pi]), Suffix)
              /\ IsPlain(HeaderPath(HeaderOf(parts[pi])))
              /\ Writable(PlainLoc(HeaderPath(HeaderOf(parts[pi])))))
             => /\ DOMAIN files' = DOMAIN files
                      \cup {PlainLoc(HeaderPath(HeaderOf(parts[pi])))}
                /\ files'[PlainLoc(HeaderPath(HeaderOf(parts[pi])))] = <<>>
                /\ \A l \in DOMAIN files :
                      l # PlainLoc(HeaderPath(HeaderOf(parts[pi])))
                          => files'[l] = files[l]]_vars

\* An existing file truncated by a later record with an empty body, after a
\* fragment with no body was passed over.
C10_Witness ==
    /\ pc = "d_done"
    /\ Len(parts) = 4
    /\ ~HasBody(parts[2])
    /\ parts[3] = <<"a", " ", "-", "-", "-", "\n",
                    "1", "1", "1", "1", "1", "1", "1", "1", "\n", "\n">>
    /\ parts[4] = <<"a", " ", "-", "-", "-", "\n", "\n", "\n">>
    /\ DOMAIN files = {PlainLoc(<<"a">>)}
    /\ files[PlainLoc(<<"a">>)] = <<>>

====
